---- MODULE Spec2Model ----
(***************************************************************************)
(* Model of the vocabulary-quiz bot (src/utils.py, src/buttons.py).        *)
(*                                                                         *)
(* The store (tables users, word, users_word), the bulk word file and the  *)
(* per-chat conversation step are the state.  Every chat handler of        *)
(* GameUtils is one action; the word-selection procedures                  *)
(* (word_generator, read_words_csv, read_words_bd,                         *)
(* read_words_bd_added_user, get_fallback_words) are operators that        *)
(* compute the set of all outcomes of the procedure, one per random        *)
(* choice, including the outcome "an exception left the procedure".        *)
(*                                                                         *)
(* A second specification, SpecThreads, runs read_words_csv of two chats   *)
(* with its store and file accesses as separate steps.                     *)
(***************************************************************************)
EXTENDS Integers, Sequences, FiniteSets, TLC

VARIABLES
    users,        \* table users: sequence of rows, users.id = position
    word,         \* table word: set of rows [id, user_id, russian_words, translation]
    nextWordId,   \* next value of the serial word.id
    users_word,   \* table users_word: set of rows [id, user_id, word_id, times_shown]
    nextUwId,     \* next value of the serial users_word.id
    csv,          \* russian_english_words.csv: sequence of rows, header first
    step,         \* per chat: the registered next-step handler
    round,        \* per chat: the round start_game sent and registered
    outcome,      \* per chat: how the last word_generator call ended
    last,         \* per chat: observations of the last handler (history)
    shown,        \* history: <<user, word id>> -> number of presentations as prompt
    tally,        \* history: per chat, the correct and the wrong answers given so far
    bulkSeen,     \* history: rows the bulk source returned in earlier handlers
    clock,        \* number of handlers run so far, counted from what Init gives
    thr,          \* SpecThreads: per chat, the locals of a running read_words_csv
    view          \* SpecWords, SpecRating: the list message last composed

vars == <<users, word, nextWordId, users_word, nextUwId, csv, step, round,
          outcome, last, shown, tally, bulkSeen, clock, thr, view>>

----------------------------------------------------------------------------
(* Bounds of the model *)

\* handlers run in one behaviour
MaxSteps == 6

\* depth of nested read_words_* calls at which the interpreter raises RecursionError
RecursionLimit == 8

(* Program constants *)

\* default quantity of read_words_csv / read_words_bd / get_fallback_words
Quantity == 4

\* a word is mastered at this cumulative times_shown (HAVING SUM(...) >= 4)
MasteryThreshold == 4

\* points of a correct answer, and of a wrong one
PointsCorrect == 1

PointsWrong == 3

\* SQL NULL, Python None
NULL == 0

\* Telegram ids of the chats; users.id (serial, from 1) is a different number
TgUsers == {101, 102}

UserName(u) == IF u = 101 THEN "ann" ELSE "bob"

\* btn_text labels
BTN_VIEW_RATING == "BTN_VIEW_RATING"

BTN_ADD_WORD == "BTN_ADD_WORD"

BTN_DEL_WORD == "BTN_DEL_WORD"

BTN_Back == "BTN_Back"

Header == <<"russian", "english">>

\* the bulk files a fresh installation may start with: header plus rows; a row
\* with one field is malformed
InitialFiles ==
    { <<Header>>,
      <<Header, <<"a", "x">> >>,
      <<Header, <<"a", "x">>, <<"b", "y">> >>,
      <<Header, <<"a", "x">>, <<"b">> >> }

----------------------------------------------------------------------------
(* Python dict with insertion order: a sequence of entries with distinct keys *)

Range(s) == { s[i] : i \in DOMAIN s }

DictKeys(d) == { d[i].k : i \in DOMAIN d }

DictPos(d, key) == CHOOSE i \in DOMAIN d : d[i].k = key

\* d[key] = [tr, id]: a present key keeps its position and takes the new value
DictSet(d, key, tr, id) ==
    IF key \in DictKeys(d)
    THEN [d EXCEPT ![DictPos(d, key)] = [k |-> key, tr |-> tr, id |-> id]]
    ELSE Append(d, [k |-> key, tr |-> tr, id |-> id])

RECURSIVE DictUpdate(_, _)
\* d.update(e)
DictUpdate(d, e) ==
    IF e = <<>> THEN d
    ELSE DictUpdate(DictSet(d, Head(e).k, Head(e).tr, Head(e).id), Tail(e))

\* the sequences of n distinct elements of S (random.sample, ORDER BY RANDOM() LIMIT n)
RECURSIVE Arrangements(_, _)
Arrangements(S, n) ==
    IF n = 0 \/ S = {} THEN { <<>> }
    ELSE UNION { { <<x>> \o t : t \in Arrangements(S \ {x}, n - 1) } : x \in S }

Min(a, b) == IF a < b THEN a ELSE b

----------------------------------------------------------------------------
(* The store.  The selection procedures work on a record st holding the    *)
(* tables, the file and what the running handler has observed so far.      *)

Store ==
    [users |-> users, word |-> word, nextWordId |-> nextWordId,
     users_word |-> users_word, nextUwId |-> nextUwId, csv |-> csv,
     drawn |-> {}, overflow |-> FALSE, readFailed |-> FALSE, overwritten |-> FALSE]

\* SELECT u.id FROM users u WHERE u.telegram_user_id = tg: the set of ids (0 or 1)
UserIds(st, tg) == { i \in DOMAIN st.users : st.users[i].telegram_user_id = tg }

\* search_user(tg) is not None
Registered(st, tg) == UserIds(st, tg) # {}

\* Database.insert_data on table word (the class is not part of src/): taken to
\* return the id of the inserted row, which save_word hands on as id_word
insert_data_id(st) == st.nextWordId

\* DatabaseUtils.search_word: result[0][0] of the matching rows, else None
search_word(st, w, owner) ==
    LET hits == { r \in st.word : r.russian_words = w /\ r.user_id = owner }
    IN  IF hits = {} THEN NULL
        ELSE (CHOOSE r \in hits : \A o \in hits : r.id <= o.id).id

\* a save that stores every word as the word of user 101
MutSaveWordOwned(st, w, tr, owner) ==
    [st EXCEPT !.word = @ \cup { [id |-> st.nextWordId, user_id |-> 101,
                                  russian_words |-> w, translation |-> tr] },
               !.nextWordId = @ + 1]

\* DatabaseUtils.save_word: one new row of table word
save_word(st, w, tr, owner) ==
    [st EXCEPT !.word = @ \cup { [id |-> insert_data_id(st), user_id |-> owner,
                                  russian_words |-> w, translation |-> tr] },
               !.nextWordId = @ + 1]

RECURSIVE SumShown(_)
\* SUM(uw.times_shown) over a set of users_word rows
SumShown(rows) ==
    IF rows = {} THEN 0
    ELSE LET r == CHOOSE x \in rows : TRUE
         IN  r.times_shown + SumShown(rows \ {r})

\* the users_word rows of Telegram user tg for word wid
ExposureRows(st, tg, wid) ==
    { r \in st.users_word : r.word_id = wid /\ r.user_id \in UserIds(st, tg) }

\* cumulative times_shown of word wid for Telegram user tg
TimesShown(st, tg, wid) == SumShown(ExposureRows(st, tg, wid))

\* a HAVING clause that lets the sum 4 through
MutHavingAbove(total) == total > MasteryThreshold

\* the HAVING clause of the sub-select: the word is excluded at this sum
Having(total) == total >= MasteryThreshold

\* a WHERE clause that takes the words of any user for flag = True
MutEligibleAnyOwner(st, tg, flag) ==
    { r \in st.word :
        /\ ~ ( /\ ExposureRows(st, tg, r.id) # {}
               /\ Having(TimesShown(st, tg, r.id)) )
        /\ IF flag THEN r.user_id # NULL ELSE r.user_id = NULL }

\* the rows the WHERE clause of get_random_words_for_user keeps
EligibleRows(st, tg, flag) ==
    { r \in st.word :
        /\ ~ ( /\ ExposureRows(st, tg, r.id) # {}
               /\ Having(TimesShown(st, tg, r.id)) )
        /\ IF flag THEN r.user_id = tg ELSE r.user_id = NULL }

RECURSIVE RowsToDict(_)
\* for words in result_bd_word: words_dict[words[0]] = [words[1], words[2]]
RowsToDict(rows) ==
    IF rows = <<>> THEN <<>>
    ELSE LET r == rows[Len(rows)]
         IN  DictSet(RowsToDict(SubSeq(rows, 1, Len(rows) - 1)),
                     r.russian_words, r.translation, r.id)

\* the rows of a set in the order of their ids
RECURSIVE ById(_)
ById(rows) ==
    IF rows = {} THEN <<>>
    ELSE LET r == CHOOSE x \in rows : \A o \in rows : x.id <= o.id
         IN  <<r>> \o ById(rows \ {r})

\* ORDER BY RANDOM() LIMIT n over a set of rows: any row comes first, with any
\* n - 1 of the others.  The order of the others is not kept apart: of the dict
\* built from them only the first key is read by position, and the list of the
\* other values is shuffled before it is shown (buttons.py, translation_buttons)
RandomRows(rows, n) ==
    IF n = 0 \/ rows = {} THEN { <<>> }
    ELSE UNION { { <<first>> \o ById(others)
                   : others \in { S \in SUBSET (rows \ {first}) : Cardinality(S) = n - 1 } }
                 : first \in rows }

\* DatabaseUtils.get_random_words_for_user: every dict ORDER BY RANDOM() LIMIT quantity can give
get_random_words_for_user(st, tg, quantity, flag) ==
    LET el == EligibleRows(st, tg, flag)
    IN  { RowsToDict(rows) : rows \in RandomRows(el, Min(quantity, Cardinality(el))) }

\* an update of the points without the condition on the Telegram id
MutUpdatePointsAll(st, tg, points, add) ==
    [st EXCEPT !.users = [i \in DOMAIN @ |->
        [@[i] EXCEPT !.points = IF add THEN @ + points ELSE @ - points]]]

\* an update of the points that stops at zero
MutUpdatePointsFloor(st, tg, points, add) ==
    [st EXCEPT !.users = [i \in DOMAIN @ |->
        IF @[i].telegram_user_id = tg
        THEN [@[i] EXCEPT !.points =
                 IF add THEN @ + points ELSE IF @ < points THEN 0 ELSE @ - points]
        ELSE @[i]]]

\* DatabaseUtils.update_points: points +/- the given amount, of the rows of that
\* Telegram id (SET points = points + n, or points - n)
update_points(st, tg, points, add) ==
    [st EXCEPT !.users = [i \in DOMAIN @ |->
        IF @[i].telegram_user_id = tg
        THEN [@[i] EXCEPT !.points = IF add THEN @ + points ELSE @ - points]
        ELSE @[i]]]

\* an update of times_shown that inserts a row with 1 whether or not one exists
MutTimesShownInsertAgain(st, tg, wid) ==
    LET uid == CHOOSE i \in UserIds(st, tg) : TRUE
    IN  [st EXCEPT !.users_word = @ \cup { [id |-> st.nextUwId, user_id |-> uid,
                                            word_id |-> wid, times_shown |-> 1] },
                   !.nextUwId = @ + 1]

\* DatabaseUtils.update_times_shown: +1 on the first matching row, else a new row with 1.
\* With no users row for the Telegram id, user_id[0][0] raises and nothing is stored.
update_times_shown(st, tg, wid) ==
    LET hits == ExposureRows(st, tg, wid)
    IN  IF hits # {}
        THEN LET first == CHOOSE r \in hits : \A o \in hits : r.id <= o.id
             IN  [st EXCEPT !.users_word =
                     (@ \ {first}) \cup { [first EXCEPT !.times_shown = @ + 1] }]
        ELSE IF UserIds(st, tg) = {} THEN st
        ELSE LET uid == CHOOSE i \in UserIds(st, tg) : TRUE
             IN  [st EXCEPT !.users_word = @ \cup { [id |-> st.nextUwId, user_id |-> uid,
                                                     word_id |-> wid, times_shown |-> 1] },
                            !.nextUwId = @ + 1]

\* DatabaseUtils.save_user
save_user(st, name, tg) ==
    [st EXCEPT !.users = Append(@, [telegram_user_id |-> tg, name |-> name, points |-> 0])]

\* a DELETE whose condition leaves the owner out
MutDeleteAnyOwner(st, w, tg) ==
    LET gone == { r \in st.word : r.russian_words = w }
    IN  [st EXCEPT !.word = @ \ gone,
                   !.users_word = { r \in @ : r.word_id \notin { g.id : g \in gone } }]

\* DatabaseUtils.delete_word: the rows of that term and owner go, and with them
\* (ON DELETE CASCADE) their users_word rows
delete_word(st, w, tg) ==
    LET gone == { r \in st.word : r.russian_words = w /\ r.user_id = tg }
    IN  [st EXCEPT !.word = @ \ gone,
                   !.users_word = { r \in @ : r.word_id \notin { g.id : g \in gone } }]

----------------------------------------------------------------------------
(* Word selection.  An outcome is [st, res, exc]: the store after the      *)
(* call, the dict it returned, or exc = TRUE when an exception left it.    *)

Return(st, res) == [st |-> st, res |-> res, exc |-> FALSE]

Raise(st) == [st |-> st, res |-> <<>>, exc |-> TRUE]

\* RecursionError of a call nested deeper than the interpreter allows
RecursionError(st) == Raise([st EXCEPT !.overflow = TRUE])

RECURSIVE csv_loop(_, _, _, _)
\* read_words_csv, the loop over selected_words: looks each row up, saves the
\* unknown ones, fills words_dict; a row without term or translation raises
\* IndexError.  [st, wd, done, exc], done = the rows that reached words_dict
csv_loop(st, rows, wd, done) ==
    IF rows = <<>> THEN [st |-> st, wd |-> wd, done |-> done, exc |-> FALSE]
    ELSE LET word_list == Head(rows)
             stop == [st |-> st, wd |-> wd, done |-> done, exc |-> TRUE]
         IN  IF Len(word_list) = 0 THEN stop
             ELSE LET id_found == search_word(st, word_list[1], NULL)
                  IN  IF Len(word_list) < 2 THEN stop
                      ELSE LET st1 == IF id_found = NULL
                                      THEN save_word(st, word_list[1], word_list[2], NULL)
                                      ELSE st
                               id_word == IF id_found = NULL THEN insert_data_id(st)
                                          ELSE id_found
                           IN  csv_loop(st1, Tail(rows),
                                        DictSet(wd, word_list[1], word_list[2], id_word),
                                        done \cup {word_list})

\* a rewrite that puts every row read back into the file
MutWriteKeepsAll(st, words, selected) == [st EXCEPT !.csv = words]

\* remaining_words = [word for word in words if word not in selected_words], written back
csv_write(st, words, selected) ==
    LET keep(w) == w \notin Range(selected)
    IN  [st EXCEPT !.csv = SelectSeq(words, keep)]

\* words_dict.update(result) of the top-ups
Merge(wd, result) == DictUpdate(wd, result)

\* history: the update gave an entry already in words_dict another value
NoteMerge(st, wd, result) ==
    [st EXCEPT !.overwritten = @ \/ \E i \in DOMAIN wd : Merge(wd, result)[i] # wd[i]]

\* the store and the merged dict a top-up hands back
Merged(st, wd, result) == Return(NoteMerge(st, wd, result), Merge(wd, result))

RECURSIVE read_words_csv(_, _, _, _, _)
RECURSIVE read_words_bd(_, _, _, _, _)

\* an except branch that returns words_dict as it is
MutExceptNoFallback(st, wd, tg, quantity, depth, io) == { Return(st, wd) }

\* read_words_csv, the except branch: words_dict.update(read_words_bd(user_id, quantity))
csv_except(st, wd, tg, quantity, depth, io) ==
    { IF o.exc THEN o ELSE Merged(o.st, wd, o.res)
      : o \in read_words_bd(st, tg, quantity, depth + 1, io) }

\* read_words_csv after the loop over selected_words (lp = what csv_loop gave):
\* the top-up, the rewrite of the file from the rows read at the start, the
\* except branch when the loop or the top-up raised
csv_finish(lp, words, selected, tg, quantity, depth, io) ==
    LET st1 == [lp.st EXCEPT !.drawn = @ \cup lp.done]
    IN  IF lp.exc THEN csv_except(st1, lp.wd, tg, quantity, depth, io)
        ELSE IF Len(lp.wd) < quantity
        THEN UNION { IF o.exc
                     THEN csv_except(o.st, lp.wd, tg, quantity, depth, io)
                     ELSE { Merged(csv_write(o.st, words, selected), lp.wd, o.res) }
                     : o \in read_words_bd(st1, tg, quantity - Len(lp.wd), depth + 1, io) }
        ELSE { Return(csv_write(st1, words, selected), lp.wd) }

\* selected_words = random.sample(words[1:], min(len(words[1:]), quantity))
csv_samples(words, quantity) ==
    LET data == IF words = <<>> THEN <<>> ELSE Tail(words)
        n == IF Len(data) < quantity THEN Len(data) ELSE quantity
    IN  { [i \in 1..n |-> data[sel[i]]] : sel \in Arrangements(DOMAIN data, n) }

\* GameUtils.read_words_csv; io = FALSE: opening the file raises
read_words_csv(st, tg, quantity, depth, io) ==
    IF depth > RecursionLimit THEN { RecursionError(st) }
    ELSE IF ~io
    THEN csv_except([st EXCEPT !.readFailed = TRUE], <<>>, tg, quantity, depth, io)
    ELSE UNION { csv_finish(csv_loop(st, selected, <<>>, {}), st.csv, selected,
                            tg, quantity, depth, io)
                 : selected \in csv_samples(st.csv, quantity) }

\* GameUtils.read_words_bd
read_words_bd(st, tg, quantity, depth, io) ==
    IF depth > RecursionLimit THEN { RecursionError(st) }
    ELSE UNION { IF Len(result) < quantity
                 THEN { IF o.exc THEN o ELSE Merged(o.st, result, o.res)
                        : o \in read_words_csv(st, tg, quantity - Len(result),
                                               depth + 1, io) }
                 ELSE { Return(st, result) }
                 : result \in get_random_words_for_user(st, tg, quantity, FALSE) }

\* GameUtils.read_words_bd_added_user
read_words_bd_added_user(st, tg, depth, io) ==
    UNION { IF Len(result) < 4
            THEN { IF o.exc THEN o ELSE Merged(o.st, result, o.res)
                   : o \in read_words_bd(st, tg, 4 - Len(result), depth + 1, io) }
            ELSE { Return(st, result) }
            : result \in get_random_words_for_user(st, tg, Quantity, TRUE) }

\* the built-in list of get_fallback_words
fallback_words ==
    << <<"kot", "cat">>, <<"sobaka", "dog">>, <<"moloko", "milk">>, <<"hleb", "bread">>,
       <<"yabloko", "apple">>, <<"mashina", "car">>, <<"dom", "house">>,
       <<"okno", "window">>, <<"derevo", "tree">>, <<"kniga", "book">>,
       <<"ruchka", "pen">>, <<"stol", "table">>, <<"stul", "chair">>,
       <<"chasy", "clock">>, <<"zont", "umbrella">>, <<"solnce", "sun">>,
       <<"luna", "moon">>, <<"zvezda", "star">>, <<"ryba", "fish">>,
       <<"ptica", "bird">> >>

RECURSIVE fallback_loop(_, _, _)
\* get_fallback_words, the loop: saves the unknown words, fills words_dict (no ids)
fallback_loop(st, pairs, wd) ==
    IF pairs = <<>> THEN Return(st, wd)
    ELSE LET w == Head(pairs)[1]
             translation == Head(pairs)[2]
             st1 == IF search_word(st, w, NULL) = NULL
                    THEN save_word(st, w, translation, NULL) ELSE st
         IN  fallback_loop(st1, Tail(pairs), DictSet(wd, w, translation, NULL))

\* GameUtils.get_fallback_words
get_fallback_words(st, quantity) ==
    { fallback_loop(st, [i \in 1..quantity |-> fallback_words[sel[i]]], <<>>)
      : sel \in Arrangements(DOMAIN fallback_words, quantity) }

NoRound == [word |-> "", translation |-> "", id_word |-> NULL, distractors |-> {}]

\* the tuple word_generator returns; text_buttons as the set of the other entries
\* (translation_buttons shuffles the list before it is shown)
RoundOf(res, id_word) ==
    [word |-> res[1].k, translation |-> res[1].tr, id_word |-> id_word,
     distractors |-> { [k |-> res[i].k, tr |-> res[i].tr, id |-> res[i].id]
                       : i \in 2..Len(res) }]

\* GameUtils.word_generator from the strategy's outcome o on.
\* [st, how, rnd]: how = "selected", "fallback", or "raised" when the exception
\* of a strategy, called outside the try, leaves word_generator
generated(o) ==
    IF o.exc THEN { [st |-> o.st, how |-> "raised", rnd |-> NoRound] }
    ELSE IF o.res # <<>>
    THEN { [st |-> o.st, how |-> "selected", rnd |-> RoundOf(o.res, o.res[1].id)] }
    ELSE { [st |-> f.st, how |-> "fallback",
            rnd |-> RoundOf(f.res, search_word(f.st, f.res[1].k, NULL))]
           : f \in get_fallback_words(o.st, Quantity) }

\* GameUtils.word_generator, the strategy chosen by flag = random.randint(0, 2):
\* the outcomes of the call that gives word_dict
strategy(st, tg, flag, io) ==
    CASE flag = 0 -> read_words_csv(st, tg, Quantity, 1, io)
      [] flag = 1 -> read_words_bd_added_user(st, tg, 1, io)
      [] OTHER    -> read_words_bd(st, tg, Quantity, 1, io)

\* GameUtils.word_generator for one value of random.randint(0, 2)
word_generator(st, tg, flag, io) ==
    UNION { generated(o) : o \in strategy(st, tg, flag, io) }

----------------------------------------------------------------------------
(* Chat input.  str.lower() and str.strip() on the texts the model sends.  *)

Lower(s) ==
    CASE s = "A" -> "a"
      [] s = "BTN_Back" -> "btn_back"
      [] OTHER -> s

Strip(s) ==
    CASE s = " a" -> "a"
      [] s = " k" -> "k"
      [] OTHER -> s

\* replies to "enter word and translation", already split at the commas
AddTexts ==
    { <<"BTN_Back">>, <<"a", " k">>, <<"A", "k">>, <<"e", "v">>, <<"a">>,
      <<"a", "k", "z">>, <<"BTN_Back", "k", "z">> }

\* replies to "which word to delete"
DeleteTexts == { "BTN_Back", " a", "A", "e" }

\* a reply that is no button of the round
OtherText == "?"

\* what a user can send as the answer of a round
Answers(r) ==
    {r.translation} \cup { d.tr : d \in r.distractors }
        \cup {BTN_VIEW_RATING, BTN_ADD_WORD, BTN_DEL_WORD, OtherText}

----------------------------------------------------------------------------
(* Observations of a handler, kept for the properties *)

NoObs ==
    [readFailed |-> FALSE, overflow |-> FALSE, overwritten |-> FALSE, barren |-> FALSE,
     avail |-> 0, repeat |-> FALSE, reply |-> "none"]

\* the terms a selection for tg can draw on: the eligible words of the store
\* (the user's own for strategy 1) and, when the file can be read, its
\* well-formed rows
AvailTerms(st, tg, flag, io) ==
    { r.russian_words : r \in EligibleRows(st, tg, FALSE) }
        \cup (IF flag = 1 THEN { r.russian_words : r \in EligibleRows(st, tg, TRUE) }
              ELSE {})
        \cup (IF io
              THEN { st.csv[i][1] : i \in { j \in 2..Len(st.csv) : Len(st.csv[j]) >= 2 } }
              ELSE {})

\* nothing to select from: no row in the file, or a file that cannot be read,
\* and no eligible word in the store for tg (own words included)
Barren(st, tg, io) ==
    /\ ~io \/ Len(st.csv) <= 1
    /\ EligibleRows(st, tg, FALSE) = {}
    /\ EligibleRows(st, tg, TRUE) = {}

Observed(st, o, tg, flag) ==
    [readFailed |-> o.st.readFailed, overflow |-> o.st.overflow,
     overwritten |-> o.st.overwritten,
     barren |-> Barren(st, tg, ~o.st.readFailed),
     avail |-> Cardinality(AvailTerms(st, tg, flag, ~o.st.readFailed)),
     repeat |-> o.how # "raised" /\ o.st.drawn \cap bulkSeen # {},
     reply |-> "round"]

----------------------------------------------------------------------------
(* Handlers *)

Commit(tg, st, stp, rnd, how, obs) ==
    /\ users' = st.users
    /\ word' = st.word
    /\ nextWordId' = st.nextWordId
    /\ users_word' = st.users_word
    /\ nextUwId' = st.nextUwId
    /\ csv' = st.csv
    /\ step' = [step EXCEPT ![tg] = stp]
    /\ round' = [round EXCEPT ![tg] = rnd]
    /\ outcome' = [outcome EXCEPT ![tg] = how]
    /\ last' = [last EXCEPT ![tg] = obs]
    /\ clock' = clock + 1
    /\ UNCHANGED <<thr, view>>

\* a handler that ends with a message and registers nothing
Quiet(tg, st, stp, reply) ==
    /\ Commit(tg, st, stp, NoRound, "none", [NoObs EXCEPT !.reply = reply])
    /\ UNCHANGED bulkSeen

\* GameUtils.start_game on store st: the round is sent and check_answer is
\* registered, unless word_generator raised.  via: what the handler that calls
\* it answered to ("round", or "back" for the back label), kept as history
start_game(tg, st, via) ==
    \E flag \in 0..2, io \in BOOLEAN :
        \E o \in word_generator(st, tg, flag, io) :
            /\ Commit(tg, o.st, IF o.how = "raised" THEN "Start" ELSE "Playing",
                      o.rnd, o.how, [Observed(st, o, tg, flag) EXCEPT !.reply = via])
            /\ bulkSeen' = IF o.how = "raised" THEN bulkSeen
                           ELSE bulkSeen \cup o.st.drawn

\* GameUtils.get_user_name
GetUserName(tg) ==
    /\ clock < MaxSteps
    /\ step[tg] = "Start"
    /\ UNCHANGED <<shown, tally>>
    /\ IF Registered(Store, tg)
       THEN start_game(tg, Store, "round")
       ELSE Quiet(tg, Store, "AwaitingName", "ask_name")

\* GameUtils.save_user_name
SaveUserName(tg) ==
    /\ clock < MaxSteps
    /\ step[tg] = "AwaitingName"
    /\ UNCHANGED <<shown, tally>>
    /\ start_game(tg, save_user(Store, UserName(tg), tg), "round")

\* one more answered presentation of word wid to tg
Presented(tg, wid) ==
    LET key == <<tg, wid>>
    IN  IF key \in DOMAIN shown THEN [shown EXCEPT ![key] = @ + 1]
        ELSE (key :> 1) @@ shown

\* GameUtils.check_answer
CheckAnswer(tg) ==
    /\ clock < MaxSteps
    /\ step[tg] = "Playing"
    /\ shown' = Presented(tg, round[tg].id_word)
    /\ \E user_answer \in Answers(round[tg]) :
          CASE user_answer = round[tg].translation ->
                 /\ tally' = [tally EXCEPT ![tg].correct = @ + 1]
                 /\ start_game(tg, update_times_shown(
                                       update_points(Store, tg, PointsCorrect, TRUE),
                                       tg, round[tg].id_word), "round")
            [] user_answer = BTN_VIEW_RATING ->
                 UNCHANGED tally /\ Quiet(tg, Store, "Start", "rating")
            [] user_answer = BTN_ADD_WORD ->
                 UNCHANGED tally /\ Quiet(tg, Store, "AwaitingNewWord", "ask_word")
            [] user_answer = BTN_DEL_WORD ->
                 UNCHANGED tally /\ Quiet(tg, Store, "AwaitingWordToDelete", "ask_delete")
            [] OTHER ->
                 /\ tally' = [tally EXCEPT ![tg].wrong = @ + 1]
                 /\ start_game(tg, update_points(Store, tg, PointsWrong, FALSE), "round")

\* a handler that saves the first part of a text that has not two parts
MutSaveNewWordAnyParts(st, message, tg) ==
    LET text == [i \in DOMAIN message |-> Lower(message[i])]
    IN  IF Strip(text[1]) = Lower(BTN_Back) THEN [st |-> st, reply |-> "back"]
        ELSE [st |-> save_word(st, Strip(text[1]), "", tg), reply |-> "bad_format"]

\* a handler that saves the word without looking for it first
MutSaveNewWordNoSearch(st, message, tg) ==
    LET text == [i \in DOMAIN message |-> Lower(message[i])]
    IN  IF Strip(text[1]) = Lower(BTN_Back) THEN [st |-> st, reply |-> "back"]
        ELSE IF Len(text) = 2
        THEN [st |-> save_word(st, Strip(text[1]), Strip(text[2]), tg), reply |-> "added"]
        ELSE [st |-> st, reply |-> "bad_format"]

\* GameUtils._save_new_word on the text of a message: the store it leaves and
\* the message it answers with ("back": it calls start_game instead)
save_new_word(st, message, tg) ==
    LET text == [i \in DOMAIN message |-> Lower(message[i])]
    IN  IF Strip(text[1]) = Lower(BTN_Back) THEN [st |-> st, reply |-> "back"]
        ELSE IF Len(text) = 2
        THEN IF search_word(st, Strip(text[1]), tg) = NULL
             THEN [st |-> save_word(st, Strip(text[1]), Strip(text[2]), tg),
                   reply |-> "added"]
             ELSE [st |-> st, reply |-> "duplicate"]
        ELSE [st |-> st, reply |-> "bad_format"]

\* GameUtils._save_new_word
SaveNewWord(tg) ==
    /\ clock < MaxSteps
    /\ step[tg] = "AwaitingNewWord"
    /\ UNCHANGED <<shown, tally>>
    /\ \E message \in AddTexts :
          LET r == save_new_word(Store, message, tg)
          IN  IF r.reply = "back" THEN start_game(tg, r.st, "back")
              ELSE Quiet(tg, r.st, "Start", r.reply)

\* Database.delete_data as delete_word calls it (the class is not part of src/):
\* taken to return True when a row was deleted and False when none matched
delete_data_result(st, w, tg) == search_word(st, w, tg) # NULL

\* GameUtils._delete_user_word on the text of a message: the store it leaves and
\* the message it answers with ("back": it calls start_game instead)
delete_user_word(st, message, tg) ==
    LET text == Strip(Lower(message))
    IN  IF text = Lower(BTN_Back) THEN [st |-> st, reply |-> "back"]
        ELSE [st |-> delete_word(st, text, tg),
              reply |-> IF delete_data_result(st, text, tg) THEN "deleted"
                        ELSE "not_deleted"]

\* GameUtils._delete_user_word
DeleteUserWord(tg) ==
    /\ clock < MaxSteps
    /\ step[tg] = "AwaitingWordToDelete"
    /\ UNCHANGED <<shown, tally>>
    /\ \E message \in DeleteTexts :
          LET r == delete_user_word(Store, message, tg)
          IN  IF r.reply = "back" THEN start_game(tg, r.st, "back")
              ELSE Quiet(tg, r.st, "Start", r.reply)

----------------------------------------------------------------------------
(* The bot serving the chats, one handler at a time *)

\* no list message composed yet (the texts of the messages of a game are not kept)
NoView == [kind |-> "none", requester |-> 0, position |-> 0, lines |-> <<>>]

\* no answer given yet
NoAnswers == [tg \in TgUsers |-> [correct |-> 0, wrong |-> 0]]

IdleThread ==
    [pc |-> "idle", words |-> <<>>, selected |-> <<>>, todo |-> <<>>,
     wd |-> <<>>, done |-> {}, exc |-> FALSE]

\* a fresh installation: empty tables, a bulk file
FreshStores ==
    { [users |-> <<>>, word |-> {}, nextWordId |-> 1, users_word |-> {}, nextUwId |-> 1,
       csv |-> f, clock |-> 0, tally |-> NoAnswers]
      : f \in InitialFiles }

\* What earlier runs of the bot left behind; the bot is started again, no handler
\* is registered.  The clock starts at 3: MaxSteps - 3 handlers run from here.
\* (1) user 101 registered (get_user_name, save_user_name), was served one round
\*     from a bulk file of three rows, which emptied the file, and asked for the
\*     rating (check_answer); since then the operator has put one new row into
\*     the file.
\* (2) user 101 registered, was served the word a of the bulk file and answered
\*     it correctly four times (update_points, update_times_shown), and added
\*     the word e of their own (_save_new_word); since then the operator has
\*     restored the bulk file, which holds the row of a again.
PersistedStores ==
    { [users |-> << [telegram_user_id |-> 101, name |-> "ann", points |-> 0] >>,
       word |-> { [id |-> 1, user_id |-> NULL, russian_words |-> "b", translation |-> "y"],
                  [id |-> 2, user_id |-> NULL, russian_words |-> "c", translation |-> "x"],
                  [id |-> 3, user_id |-> NULL, russian_words |-> "d", translation |-> "w"] },
       nextWordId |-> 4,
       users_word |-> {}, nextUwId |-> 1,
       csv |-> <<Header, <<"a", "x">> >>,
       clock |-> 3, tally |-> NoAnswers],
      [users |-> << [telegram_user_id |-> 101, name |-> "ann", points |-> 4] >>,
       word |-> { [id |-> 1, user_id |-> NULL, russian_words |-> "a", translation |-> "x"],
                  [id |-> 2, user_id |-> 101, russian_words |-> "e", translation |-> "v"] },
       nextWordId |-> 3,
       users_word |-> { [id |-> 1, user_id |-> 1, word_id |-> 1, times_shown |-> 4] },
       nextUwId |-> 2,
       csv |-> <<Header, <<"a", "x">> >>,
       clock |-> 3, tally |-> [NoAnswers EXCEPT ![101].correct = 4]] }

\* the bot starts: no handler is registered, the store is what it finds
Init ==
    /\ \E s \in FreshStores \cup PersistedStores :
          /\ users = s.users
          /\ word = s.word
          /\ nextWordId = s.nextWordId
          /\ users_word = s.users_word
          /\ nextUwId = s.nextUwId
          /\ csv = s.csv
          /\ clock = s.clock
          /\ tally = s.tally
    /\ step = [tg \in TgUsers |-> "Start"]
    /\ round = [tg \in TgUsers |-> NoRound]
    /\ outcome = [tg \in TgUsers |-> "none"]
    /\ last = [tg \in TgUsers |-> NoObs]
    /\ shown = <<>>
    /\ bulkSeen = {}
    /\ thr = [tg \in TgUsers |-> IdleThread]
    /\ view = NoView

Next ==
    \E tg \in TgUsers :
        \/ GetUserName(tg)
        \/ SaveUserName(tg)
        \/ CheckAnswer(tg)
        \/ SaveNewWord(tg)
        \/ DeleteUserWord(tg)

Spec == Init /\ [][Next]_vars

----------------------------------------------------------------------------
(* The bot serving two chats on worker threads.  A handler that starts a   *)
(* game runs read_words_csv (random.randint gave 0) with its accesses to   *)
(* the file and to the store as separate steps: reading and sampling the   *)
(* file, search_word and save_word for each selected row, and the rest of  *)
(* the procedure (top-up, rewrite of the file, return of the round).       *)

\* the chat's handler leaves it to the running thread
Running(tg, locals) ==
    /\ step' = [step EXCEPT ![tg] = "Running"]
    /\ thr' = [thr EXCEPT ![tg] = locals]

\* get_user_name: asks for the name, or starts the game of a known user
T_GetUserName(tg) ==
    /\ step[tg] = "Start"
    /\ IF Registered(Store, tg)
       THEN Running(tg, [IdleThread EXCEPT !.pc = "open"])
       ELSE /\ step' = [step EXCEPT ![tg] = "AwaitingName"]
            /\ UNCHANGED thr
    /\ UNCHANGED <<users, word, nextWordId, users_word, nextUwId, csv, round,
                   outcome, last, shown, tally, bulkSeen, clock, view>>

\* save_user_name up to the call of start_game
T_SaveUserName(tg) ==
    /\ step[tg] = "AwaitingName"
    /\ users' = save_user(Store, UserName(tg), tg).users
    /\ Running(tg, [IdleThread EXCEPT !.pc = "open"])
    /\ UNCHANGED <<word, nextWordId, users_word, nextUwId, csv, round,
                   outcome, last, shown, tally, bulkSeen, clock, view>>

\* read_words_csv: words = list(reader); selected_words = random.sample(...)
T_Open(tg) ==
    /\ thr[tg].pc = "open"
    /\ \E selected \in csv_samples(csv, Quantity) :
          thr' = [thr EXCEPT ![tg] = [IdleThread EXCEPT !.pc = "loop", !.words = csv,
                                                        !.selected = selected,
                                                        !.todo = selected]]
    /\ UNCHANGED <<users, word, nextWordId, users_word, nextUwId, csv, step, round,
                   outcome, last, shown, tally, bulkSeen, clock, view>>

\* read_words_csv: id_word = self.db.search_word(word_list[0]) for the next row;
\* a known word goes into words_dict at once
T_Search(tg) ==
    /\ thr[tg].pc = "loop"
    /\ thr[tg].todo # <<>>
    /\ LET word_list == Head(thr[tg].todo)
       IN  thr' = [thr EXCEPT ![tg] =
              IF Len(word_list) < 2 THEN [@ EXCEPT !.pc = "finish", !.exc = TRUE]
              ELSE IF search_word(Store, word_list[1], NULL) = NULL
              THEN [@ EXCEPT !.pc = "save"]
              ELSE [@ EXCEPT !.todo = Tail(@),
                             !.wd = DictSet(@, word_list[1], word_list[2],
                                            search_word(Store, word_list[1], NULL)),
                             !.done = @ \cup {word_list}]]
    /\ UNCHANGED <<users, word, nextWordId, users_word, nextUwId, csv, step, round,
                   outcome, last, shown, tally, bulkSeen, clock, view>>

\* read_words_csv: id_word = self.db.save_word(...) for a word the search did not find
T_Save(tg) ==
    /\ thr[tg].pc = "save"
    /\ LET word_list == Head(thr[tg].todo)
           st1 == save_word(Store, word_list[1], word_list[2], NULL)
       IN  /\ word' = st1.word
           /\ nextWordId' = st1.nextWordId
           /\ thr' = [thr EXCEPT ![tg] =
                 [@ EXCEPT !.pc = "loop", !.todo = Tail(@),
                           !.wd = DictSet(@, word_list[1], word_list[2],
                                          insert_data_id(Store)),
                           !.done = @ \cup {word_list}]]
    /\ UNCHANGED <<users, users_word, nextUwId, csv, step, round,
                   outcome, last, shown, tally, bulkSeen, clock, view>>

\* history: what the thread's selection g did; repeat = it was handed a row of
\* the file that an earlier selection had been handed
ObservedThread(g) ==
    [NoObs EXCEPT !.overflow = g.st.overflow, !.overwritten = g.st.overwritten,
                  !.repeat = g.how # "raised" /\ g.st.drawn \cap bulkSeen # {},
                  !.reply = "round"]

\* read_words_csv after the loop, then word_generator and start_game to their end
T_Finish(tg) ==
    /\ \/ thr[tg].pc = "loop" /\ thr[tg].todo = <<>>
       \/ thr[tg].pc = "finish"
    /\ \E o \in csv_finish([st |-> Store, wd |-> thr[tg].wd, done |-> thr[tg].done,
                            exc |-> thr[tg].exc],
                           thr[tg].words, thr[tg].selected, tg, Quantity, 1, TRUE) :
          \E g \in generated(o) :
             /\ users' = g.st.users
             /\ word' = g.st.word
             /\ nextWordId' = g.st.nextWordId
             /\ csv' = g.st.csv
             /\ step' = [step EXCEPT ![tg] = IF g.how = "raised" THEN "Start"
                                             ELSE "Playing"]
             /\ round' = [round EXCEPT ![tg] = g.rnd]
             /\ outcome' = [outcome EXCEPT ![tg] = g.how]
             /\ last' = [last EXCEPT ![tg] = ObservedThread(g)]
             /\ bulkSeen' = IF g.how = "raised" THEN bulkSeen
                            ELSE bulkSeen \cup g.st.drawn
    /\ thr' = [thr EXCEPT ![tg] = IdleThread]
    /\ clock' = clock + 1
    /\ UNCHANGED <<users_word, nextUwId, shown, tally, view>>

NextThreads ==
    \E tg \in TgUsers :
        \/ clock < MaxSteps /\ T_GetUserName(tg)
        \/ T_SaveUserName(tg)
        \/ T_Open(tg)
        \/ T_Search(tg)
        \/ T_Save(tg)
        \/ T_Finish(tg)

SpecThreads == Init /\ [][NextThreads]_vars

----------------------------------------------------------------------------
(* The list of a user's own words.  _format_user_words is a function of    *)
(* the tables: SpecWords draws the tables and applies it.  A cell of the   *)
(* column uw.times_shown is <<>> for SQL NULL and <<n>> for the number n.  *)

\* DatabaseUtils.get_user_word: the rows of word w LEFT JOIN users_word uw ON
\* w.id = uw.word_id WHERE w.user_id = tg, as the dict term -> times_shown;
\* the rows are taken in the order of the word ids, and of several users_word
\* rows of one word the last one stays in the dict
get_user_word(st, tg) ==
    LET own == ById({ r \in st.word : r.user_id = tg })
        cell(r) ==
            LET uw == { u \in st.users_word : u.word_id = r.id }
            IN  IF uw = {} THEN <<>>
                ELSE << (CHOOSE u \in uw : \A o \in uw : o.id <= u.id).times_shown >>
    IN  [i \in DOMAIN own |-> [word |-> own[i].russian_words, times_shown |-> cell(own[i])]]

\* a status that calls a word learned only above 4
MutStatusAbove(times_shown) ==
    IF times_shown = <<>> \/ times_shown[1] <= MasteryThreshold THEN "learning"
    ELSE "learned"

\* _format_user_words: "изучается" if times_shown is None or times_shown < 4 else "изучено"
word_status(times_shown) ==
    IF times_shown = <<>> \/ times_shown[1] < MasteryThreshold THEN "learning"
    ELSE "learned"

\* GameUtils._format_user_words: one line "word - status" per entry of the dict
format_user_words(st, tg) ==
    LET word_dict == get_user_word(st, tg)
    IN  [kind |-> "words", requester |-> tg, position |-> 0,
         lines |-> [i \in DOMAIN word_dict |->
                      [word |-> word_dict[i].word,
                       status |-> word_status(word_dict[i].times_shown)]]]

\* the terms users add, and the owners, of the drawn tables
OwnTerms == {"a", "e"}

\* times_shown of a users_word row of an own word: update_times_shown creates
\* the row with 1, and a word that has reached 4 is not selected for its owner
ShownValues == 1..MasteryThreshold

\* the word id of the drawn row of term w and owner tg
DrawnId(w, tg) == (IF w = "a" THEN 1 ELSE 2) + (IF tg = 101 THEN 0 ELSE 2)

\* the own words of the users, each with no users_word row or one of its owner:
\* a choice maps <<term, owner>> to <<>> (no such word), <<0>> (the word, no
\* users_word row) or <<n>> (the word and a row with times_shown = n)
WordTables ==
    { [word |-> { [id |-> DrawnId(k[1], k[2]), user_id |-> k[2], russian_words |-> k[1],
                   translation |-> "v"]
                  : k \in { x \in OwnTerms \X TgUsers : c[x] # <<>> } },
       users_word |-> { [id |-> DrawnId(k[1], k[2]),
                         user_id |-> IF k[2] = 101 THEN 1 ELSE 2,
                         word_id |-> DrawnId(k[1], k[2]), times_shown |-> c[k][1]]
                        : k \in { x \in OwnTerms \X TgUsers : c[x] \notin {<<>>, <<0>>} } }]
      : c \in [OwnTerms \X TgUsers -> {<<>>, <<0>>} \cup { <<n>> : n \in ShownValues }] }

InitWords ==
    /\ users = [i \in 1..2 |-> [telegram_user_id |-> 100 + i, name |-> UserName(100 + i),
                                 points |-> 0]]
    /\ \E t \in WordTables : word = t.word /\ users_word = t.users_word
    /\ nextWordId = 5
    /\ nextUwId = 5
    /\ csv = <<Header>>
    /\ clock = 0
    /\ step = [tg \in TgUsers |-> "Start"]
    /\ round = [tg \in TgUsers |-> NoRound]
    /\ outcome = [tg \in TgUsers |-> "none"]
    /\ last = [tg \in TgUsers |-> NoObs]
    /\ shown = <<>>
    /\ tally = NoAnswers
    /\ bulkSeen = {}
    /\ thr = [tg \in TgUsers |-> IdleThread]
    /\ view = NoView

\* _format_user_words for the user of chat tg
FormatUserWords(tg) ==
    /\ view' = format_user_words(Store, tg)
    /\ UNCHANGED <<users, word, nextWordId, users_word, nextUwId, csv, step, round,
                   outcome, last, shown, tally, bulkSeen, clock, thr>>

NextWords == \E tg \in TgUsers : FormatUserWords(tg)

SpecWords == InitWords /\ [][NextWords]_vars

----------------------------------------------------------------------------
(* The rating.  get_player_ratings and display_player_rating are functions *)
(* of the table users: SpecRating draws the table and applies them.        *)

\* players of the drawn table
MaxPlayers == 6

RECURSIVE Ranked(_, _)
\* SELECT ... FROM users ORDER BY points DESC over the rows with the positions S:
\* every order of the rows with non-increasing points (SQL leaves the order of
\* rows with equal points open)
Ranked(rows, S) ==
    IF S = {} THEN { <<>> }
    ELSE UNION { { <<rows[i]>> \o rest : rest \in Ranked(rows, S \ {i}) }
                 : i \in { j \in S : \A k \in S : rows[k].points <= rows[j].points } }

\* a rating that returns the rows as they are stored
MutRatingsUnsorted(st) ==
    { [i \in DOMAIN st.users |->
         [telegram_user_id |-> st.users[i].telegram_user_id, name |-> st.users[i].name,
          points |-> st.users[i].points]] }

\* DatabaseUtils.get_player_ratings: every list the query can give
get_player_ratings(st) == Ranked(st.users, DOMAIN st.users)

\* GameUtils._get_medal: a medal for the places 1 to 3, else the place and a dot
get_medal(idx) ==
    CASE idx = 1 -> "gold"
      [] idx = 2 -> "silver"
      [] idx = 3 -> "bronze"
      [] OTHER -> "place"

\* a line of the message: a rating entry (in <b> when bold; the entry after the
\* dots starts with a tab and has no blank after its place)
Entry(idx, user, bold, tab) ==
    [kind |-> "entry", medal |-> get_medal(idx), place |-> idx, name |-> user.name,
     points |-> user.points, bold |-> bold, tab |-> tab]

\* the line '...' and the text 'Пользователь не найден в рейтинге.'
TextLine(kind) ==
    [kind |-> kind, medal |-> "", place |-> 0, name |-> "", points |-> 0,
     bold |-> FALSE, tab |-> FALSE]

\* an entry that is bold for the first place
MutEntryBoldFirst(user_position, idx, user) == Entry(idx, user, idx = 1, FALSE)

\* GameUtils._format_rating_entry
format_rating_entry(user_position, idx, user) ==
    Entry(idx, user, user_position = idx, FALSE)

\* the first n elements of a list: rating_data[:n]
Slice(seq, n) == SubSeq(seq, 1, Min(n, Len(seq)))

\* user_position of display_player_rating: idx + 1 of the first entry with the
\* Telegram id, None (0) without one
user_position_of(rating_data, tg) ==
    LET hits == { i \in DOMAIN rating_data : rating_data[i].telegram_user_id = tg }
    IN  IF hits = {} THEN 0 ELSE CHOOSE i \in hits : \A j \in hits : i <= j

\* a list for the first five places that ends at the requester's place
MutTopUpToOwn(rating_data, user_position) ==
    [idx \in DOMAIN Slice(rating_data, user_position) |->
        format_rating_entry(user_position, idx, rating_data[idx])]

\* display_player_rating, user_position <= 3 and user_position in [4, 5]
rating_top(rating_data, user_position) ==
    LET shownRows == IF user_position <= 3 THEN Slice(rating_data, 3)
                     ELSE Slice(rating_data, user_position)
    IN  [idx \in DOMAIN shownRows |->
            format_rating_entry(user_position, idx, shownRows[idx])]

\* a list for the lower places without the line of dots
MutBelowNoDots(rating_data, user_position) ==
    [idx \in DOMAIN Slice(rating_data, 3) |->
        Entry(idx, rating_data[idx], FALSE, FALSE)]
      \o << Entry(user_position, rating_data[user_position], TRUE, TRUE) >>

\* display_player_rating, user_position from 6 on
rating_below(rating_data, user_position) ==
    [idx \in DOMAIN Slice(rating_data, 3) |->
        Entry(idx, rating_data[idx], FALSE, FALSE)]
      \o << TextLine("dots") >>
      \o << Entry(user_position, rating_data[user_position], TRUE, TRUE) >>

\* a message that shows a requester without a place the first places
MutMessageAbsentTop(rating_data, tg) ==
    [kind |-> "rating", requester |-> tg, position |-> user_position_of(rating_data, tg),
     lines |-> rating_top(rating_data, 1)]

\* GameUtils.display_player_rating from rating_data on
rating_message(rating_data, tg) ==
    LET user_position == user_position_of(rating_data, tg)
    IN  [kind |-> "rating", requester |-> tg, position |-> user_position,
         lines |-> IF user_position # 0
                   THEN IF user_position <= 5
                        THEN rating_top(rating_data, user_position)
                        ELSE rating_below(rating_data, user_position)
                   ELSE << TextLine("not_found") >>]

\* GameUtils.display_player_rating: every message it can compose
display_player_rating(st, tg) ==
    { rating_message(rating_data, tg) : rating_data \in get_player_ratings(st) }

\* names of the drawn players, by position in the table
PlayerNames == << "ann", "bob", "cy", "di", "ed", "flo", "gus", "hal" >>

\* Telegram id of the player stored at position i
PlayerId(i) == 200 + i

\* the ids a rating is asked for: the players' and one that no player has
Requesters == { PlayerId(i) : i \in 1..(MaxPlayers + 1) }

\* points a user can have: from wrong answers, none, from correct answers
PointValues == { 0 - PointsWrong, 0, PointsCorrect }

\* the drawn tables: up to MaxPlayers users in the order they registered
UserTables ==
    UNION { { [i \in 1..n |-> [telegram_user_id |-> PlayerId(i), name |-> PlayerNames[i],
                               points |-> p[i]]]
              : p \in [1..n -> PointValues] }
            : n \in 0..MaxPlayers }

InitRating ==
    /\ users \in UserTables
    /\ word = {}
    /\ nextWordId = 1
    /\ users_word = {}
    /\ nextUwId = 1
    /\ csv = <<Header>>
    /\ clock = 0
    /\ step = [tg \in TgUsers |-> "Start"]
    /\ round = [tg \in TgUsers |-> NoRound]
    /\ outcome = [tg \in TgUsers |-> "none"]
    /\ last = [tg \in TgUsers |-> NoObs]
    /\ shown = <<>>
    /\ tally = NoAnswers
    /\ bulkSeen = {}
    /\ thr = [tg \in TgUsers |-> IdleThread]
    /\ view = NoView

\* get_player_ratings, its list kept as the lines of the view.  The functions
\* change no table: a behaviour applies one of them once to the drawn table.
GetPlayerRatings ==
    /\ view = NoView
    /\ \E rating_data \in get_player_ratings(Store) :
          view' = [kind |-> "ratings", requester |-> 0, position |-> 0,
                   lines |-> rating_data]
    /\ UNCHANGED <<users, word, nextWordId, users_word, nextUwId, csv, step, round,
                   outcome, last, shown, tally, bulkSeen, clock, thr>>

\* display_player_rating for the Telegram id tg
DisplayPlayerRating(tg) ==
    /\ view = NoView
    /\ view' \in display_player_rating(Store, tg)
    /\ UNCHANGED <<users, word, nextWordId, users_word, nextUwId, csv, step, round,
                   outcome, last, shown, tally, bulkSeen, clock, thr>>

NextRating ==
    \/ GetPlayerRatings
    \/ \E tg \in Requesters : DisplayPlayerRating(tg)

SpecRating == InitRating /\ [][NextRating]_vars

----------------------------------------------------------------------------
(* Properties *)

WordIds == { r.id : r \in word }

\* The built-in list never serves a round: a strategy that returns, returns a
\* non-empty dict, so the except branch of word_generator is not entered.
FallbackNeverServes == \A tg \in TgUsers : outcome[tg] # "fallback"

\* C1: word_generator lets no error escape: when reading the bulk file failed
\* during the selection, the failure is caught and a round is served.
C1_ErrorNeverEscapes ==
    \A tg \in TgUsers : last[tg].readFailed => outcome[tg] # "raised"

\* C2: word_generator always returns a round, in particular when the bulk list
\* is empty or unreadable and the store has no eligible word for the user: the
\* mutual top-up of read_words_csv and read_words_bd ends.
C2_SelectionReturns ==
    \A tg \in TgUsers :
        last[tg].barren => ~last[tg].overflow /\ outcome[tg] \in {"selected", "fallback"}

\* C3: times_shown(user, word) is the number of answered presentations of the
\* word to the user as prompt, whatever the answers were.
C3_TimesShownCountsPresentations ==
    \A key \in DOMAIN shown :
        key[2] \in WordIds => TimesShown(Store, key[1], key[2]) = shown[key]

\* C4: update_times_shown adds exactly 1 to the existing users_word row of
\* (user, word) and creates no row; with no such row it creates exactly one
\* row, with times_shown = 1; the rows of other pairs stay as they are.
C4_RecordShown ==
    \A tg \in TgUsers : \A wid \in WordIds :
        Registered(Store, tg) =>
            LET before == ExposureRows(Store, tg, wid)
                st2 == update_times_shown(Store, tg, wid)
                after == ExposureRows(st2, tg, wid)
            IN  /\ st2.users_word \ after = users_word \ before
                /\ before # {} =>
                     /\ Cardinality(after) = Cardinality(before)
                     /\ TimesShown(st2, tg, wid) = TimesShown(Store, tg, wid) + 1
                /\ before = {} =>
                     /\ Cardinality(after) = 1
                     /\ \A r \in after : r.times_shown = 1

\* C4 witness: check_answer has created a row for a prompt the user had no row
\* for and a later answer has incremented it (the row a persisted store starts
\* with already counts MasteryThreshold presentations)
C4_Witness ==
    \E tg \in TgUsers : \E r \in users_word :
        /\ r.user_id \in UserIds(Store, tg)
        /\ r.times_shown = 2
        /\ <<tg, r.word_id>> \in DOMAIN shown

\* C5: for either owner filter and any quantity, get_random_words_for_user
\* returns no word whose cumulative times_shown for the user is 4 or more, and
\* every word of that owner with no users_word row or a sum below 4 can be
\* returned.
C5_MasteredExcluded ==
    \A tg \in TgUsers : \A flag \in BOOLEAN :
        /\ \A quantity \in 1..Quantity :
              \A d \in get_random_words_for_user(Store, tg, quantity, flag) :
                 \A i \in DOMAIN d : TimesShown(Store, tg, d[i].id) < MasteryThreshold
        /\ LET one == get_random_words_for_user(Store, tg, 1, flag)
           IN  \A r \in word :
                  /\ r.user_id = (IF flag THEN tg ELSE NULL)
                  /\ TimesShown(Store, tg, r.id) < MasteryThreshold
                  => \E d \in one : d[1].id = r.id

\* C5 witness: a user has mastered a word of the store, a handler has served
\* that user a round selected from the store without it, and the query leaves
\* it out
C5_Witness ==
    \E tg \in TgUsers : \E r \in word :
        /\ TimesShown(Store, tg, r.id) >= MasteryThreshold
        /\ outcome[tg] = "selected" /\ round[tg] # NoRound
        /\ round[tg].id_word # r.id
        /\ \A d \in round[tg].distractors : d.k # r.russian_words
        /\ \A d \in get_random_words_for_user(Store, tg, Quantity, r.user_id # NULL) :
              \A i \in DOMAIN d : d[i].id # r.id

\* C6: no row of the bulk file is returned by the bulk source in two handlers,
\* also when part of the processing fails or a top-up happens.
C6_BulkNeverRepeats == \A tg \in TgUsers : ~last[tg].repeat

\* C7: a top-up never replaces the value of a term that is already in the
\* result: the merged dict keeps the earlier translation and word id.
C7_MergeKeepsEarlier == \A tg \in TgUsers : ~last[tg].overwritten

\* C8: the prompt term of a round is none of the distractor terms, and the
\* round has exactly quantity - 1 = 3 distractors whenever at least 4 words are
\* available across the chosen source and its top-up.
C8_RoundShape ==
    \A tg \in TgUsers :
        step[tg] = "Playing" =>
            /\ round[tg].word \notin { d.k : d \in round[tg].distractors }
            /\ last[tg].avail >= Quantity =>
                  Cardinality(round[tg].distractors) = Quantity - 1

\* C9: update_points changes the points of the addressed user by exactly
\* +points when add and by exactly -points otherwise, below zero too, and
\* leaves every other user's row as it is.
C9_AdjustPoints ==
    \A tg \in TgUsers : \A points \in {PointsCorrect, PointsWrong} : \A add \in BOOLEAN :
        LET st2 == update_points(Store, tg, points, add)
        IN  /\ Len(st2.users) = Len(users)
            /\ \A i \in DOMAIN users :
                  IF users[i].telegram_user_id = tg
                  THEN st2.users[i] =
                          [users[i] EXCEPT !.points = IF add THEN @ + points ELSE @ - points]
                  ELSE st2.users[i] = users[i]

\* C9 witness: a wrong answer has taken a user's total below zero
C9_Witness == \E i \in DOMAIN users : users[i].points < 0

\* C10: the store holds at most one word row per (term, owner).
C10_UniqueTermOwner ==
    \A r1 \in word : \A r2 \in word :
        r1.russian_words = r2.russian_words /\ r1.user_id = r2.user_id => r1 = r2

\* the word rows of Telegram user tg with the term w
OwnRows(tg, w) == { r \in word : r.user_id = tg /\ r.russian_words = w }

\* C11: a well-formed add message whose term the user already owns is answered
\* with the duplicate message and leaves the tables as they are.
C11_DuplicateAddRefused ==
    \A tg \in TgUsers : \A message \in AddTexts :
        /\ Len(message) = 2
        /\ OwnRows(tg, Strip(Lower(message[1]))) # {}
        => LET r == save_new_word(Store, message, tg)
           IN  /\ r.reply = "duplicate"
               /\ r.st.word = word
               /\ r.st.users_word = users_word

\* C11 witness: _save_new_word has answered a user who owns the word e with the
\* duplicate message
C11_Witness ==
    \E tg \in TgUsers : last[tg].reply = "duplicate" /\ OwnRows(tg, "e") # {}

\* C12: a delete message with a term the user does not own is answered with the
\* failure message and leaves every row of word and users_word as it is.
C12_DeleteNotOwned ==
    \A tg \in TgUsers : \A message \in DeleteTexts :
        /\ Strip(Lower(message)) # Lower(BTN_Back)
        /\ OwnRows(tg, Strip(Lower(message))) = {}
        => LET r == delete_user_word(Store, message, tg)
           IN  /\ r.reply = "not_deleted"
               /\ r.st.word = word
               /\ r.st.users_word = users_word

\* C12 witness: _delete_user_word has answered with the failure message while
\* another owner's row of a term the user can name is in the store
C12_Witness ==
    \E tg \in TgUsers :
        /\ last[tg].reply = "not_deleted"
        /\ \E r \in word : r.russian_words \in {"a", "e"} /\ r.user_id # tg

\* C13: a word of the user's list is reported as learned iff the user has a
\* times_shown for it and it is at least 4; with none, or a value below 4, it is
\* reported as being learned still.
C13_MasteredIffFour ==
    \A tg \in TgUsers :
        view = format_user_words(Store, tg) =>
            \A i \in DOMAIN view.lines :
                \E r \in word :
                    /\ r.user_id = tg /\ r.russian_words = view.lines[i].word
                    /\ view.lines[i].status = "learned" <=>
                          /\ ExposureRows(Store, tg, r.id) # {}
                          /\ TimesShown(Store, tg, r.id) >= MasteryThreshold
                    /\ view.lines[i].status \in {"learned", "learning"}

\* C13 witness: a composed list with a learned word and a word without times_shown
C13_Witness ==
    /\ view.kind = "words"
    /\ \E i, j \in DOMAIN view.lines :
          /\ view.lines[i].status = "learned"
          /\ view.lines[j].status = "learning"
          /\ \E r \in word : r.russian_words = view.lines[j].word
                               /\ \A u \in users_word : u.word_id # r.id

\* the positions in the table users of the rows with Telegram id tg
PlayerPos(tg) == { i \in DOMAIN users : users[i].telegram_user_id = tg }

\* the first k lines are entries for the places 1..k, of k different users with
\* their stored points, in the order of the places, and no user left out has
\* more points than a listed one
TopEntries(lines, k) ==
    /\ \A i \in 1..k :
          /\ lines[i].kind = "entry" /\ lines[i].place = i /\ ~lines[i].tab
          /\ lines[i].medal = (IF i = 1 THEN "gold" ELSE IF i = 2 THEN "silver"
                               ELSE IF i = 3 THEN "bronze" ELSE "place")
          /\ \E u \in Range(users) : u.name = lines[i].name /\ u.points = lines[i].points
    /\ \A i, j \in 1..k : i < j => /\ lines[i].name # lines[j].name
                                     /\ lines[i].points >= lines[j].points
    /\ \A u \in Range(users) :
          u.name \notin { lines[i].name : i \in 1..k } =>
              \A i \in 1..k : lines[i].points >= u.points

\* the line at place p is the requester's row, and p is a place the requester's
\* points allow
OwnLine(line, p) ==
    \E i \in PlayerPos(view.requester) :
        /\ line.name = users[i].name /\ line.points = users[i].points
        /\ Cardinality({ j \in DOMAIN users : users[j].points > users[i].points }) < p
        /\ p <= Cardinality({ j \in DOMAIN users : users[j].points >= users[i].points })

\* C14 (as amended): get_player_ratings returns every user exactly once, with
\* points non-increasing along the list.
C14_RankingDescending ==
    view.kind = "ratings" =>
        /\ Len(view.lines) = Len(users)
        /\ \A i \in DOMAIN users :
              Cardinality({ j \in DOMAIN view.lines :
                              view.lines[j].telegram_user_id = users[i].telegram_user_id
                              /\ view.lines[j].name = users[i].name
                              /\ view.lines[j].points = users[i].points }) = 1
        /\ \A j, k \in DOMAIN view.lines :
              j < k => view.lines[j].points >= view.lines[k].points

\* C14 (as stated): moreover users with equal points appear in the order in
\* which they are stored.
C14_TiesInStorageOrder ==
    view.kind = "ratings" =>
        /\ C14_RankingDescending
        /\ \A j, k \in DOMAIN view.lines :
              j < k /\ view.lines[j].points = view.lines[k].points =>
                  \A a \in PlayerPos(view.lines[j].telegram_user_id) :
                      \A b \in PlayerPos(view.lines[k].telegram_user_id) : a < b

\* C14 witness: a returned list of at least three users with a tie and with
\* different points
C14_Witness ==
    /\ view.kind = "ratings"
    /\ Len(view.lines) >= 3
    /\ \E j, k \in DOMAIN view.lines :
          j # k /\ view.lines[j].points = view.lines[k].points
    /\ \E j, k \in DOMAIN view.lines : view.lines[j].points > view.lines[k].points

C16_BelowFive ==
    view.kind = "rating" /\ view.position >= 6 =>
        /\ Len(view.lines) = 5
        /\ TopEntries(view.lines, 3)
        /\ \A i \in 1..3 : ~view.lines[i].bold
        /\ view.lines[4].kind = "dots"
        /\ view.lines[5].kind = "entry" /\ view.lines[5].bold
        /\ view.lines[5].place = view.position
        /\ OwnLine(view.lines[5], view.position)

\* C16 witness: a message for the requester at place 6
C16_Witness == view.kind = "rating" /\ view.position = 6

\* C17 (as stated): for a requester at place 2 of 5 users the message has
\* exactly 2 entries, the second bold.
C17_TwoEntries ==
    view.kind = "rating" /\ view.position = 2 /\ Len(users) = 5 =>
        Len(view.lines) = 2 /\ view.lines[2].bold

\* C17 (as amended): for a requester at place 2 of 5 users the message has
\* exactly 3 entries, those of the places 1 to 3, of which the second and no
\* other is bold.
C17_ThreeEntries ==
    view.kind = "rating" /\ view.position = 2 /\ Len(users) = 5 =>
        /\ Len(view.lines) = 3
        /\ \A i \in 1..3 : /\ view.lines[i].kind = "entry" /\ view.lines[i].place = i
                             /\ view.lines[i].bold <=> i = 2

\* C17 witness: a message for the requester at place 2 of 5 users
C17_Witness ==
    view.kind = "rating" /\ view.position = 2 /\ Len(users) = 5

\* C18: for a Telegram id that no row of users has, the message is the
\* not-found text and has no entry.
C18_AbsentNotFound ==
    view.kind = "rating" /\ PlayerPos(view.requester) = {} =>
        /\ Len(view.lines) = 1
        /\ view.lines[1].kind = "not_found"

\* C18 witness: a message for an id without a row, with users in the table
C18_Witness ==
    view.kind = "rating" /\ PlayerPos(view.requester) = {} /\ Len(users) >= 3

\* C19: no round presents to a user, as the prompt, a word the user has
\* mastered (cumulative times_shown of 4 or more), whichever source gave it.
C19_NoMasteredPrompt ==
    \A tg \in TgUsers :
        step[tg] = "Playing" =>
            TimesShown(Store, tg, round[tg].id_word) < MasteryThreshold

\* what a selection procedure hands to its caller and leaves in the store
Handed(o) ==
    [res |-> o.res, exc |-> o.exc, overflow |-> o.st.overflow, users |-> o.st.users,
     word |-> o.st.word, users_word |-> o.st.users_word, csv |-> o.st.csv]

\* C20: when the bulk file cannot be read, read_words_csv(user, quantity) hands
\* back exactly what read_words_bd(user, quantity), called from it, hands back,
\* and the bulk file is as it was.
C20_ReadFailureFallsBack ==
    \A tg \in TgUsers : \A quantity \in 1..Quantity :
        LET csvOut == read_words_csv(Store, tg, quantity, 1, FALSE)
            bdOut == read_words_bd(Store, tg, quantity, 2, FALSE)
        IN  /\ { Handed(o) : o \in csvOut } = { Handed(o) : o \in bdOut }
            /\ \A o \in csvOut : o.st.csv = csv /\ o.st.readFailed

\* C20 witness: a handler whose read of the bulk file failed has served a round
\* from the words of the store, and the file still holds its rows
C20_Witness ==
    \E tg \in TgUsers :
        /\ last[tg].readFailed /\ outcome[tg] = "selected"
        /\ Len(csv) > 1

\* C21: after read_words_csv has returned, the bulk file is the file as it was
\* before the call without the rows the call, and the calls nested in its
\* top-up, handed out: the header and the other rows remain, in their order.
C21_FileMinusConsumed ==
    \A tg \in TgUsers : \A quantity \in 1..Quantity :
        \A o \in read_words_csv(Store, tg, quantity, 1, TRUE) :
            ~o.exc => o.st.csv = SelectSeq(csv, LAMBDA row : row \notin o.st.drawn)

\* every row of a file, the header aside, has a term and a translation
WellFormed(words) == \A i \in 2..Len(words) : Len(words[i]) >= 2

\* the step in which the thread of chat tg ends its read_words_csv
Finishes(tg) == thr[tg].pc # "idle" /\ thr'[tg].pc = "idle"

\* C22: with read_words_csv of two sessions running as interleaved steps, a
\* session is handed a row of a well-formed file that another session had been
\* handed only when the file was rewritten between this session's read and its
\* own rewrite: the duplicate comes from the interleaving, and it is reachable
\* (C22_Witness).
C22_DuplicateByInterleaving ==
    [][\A tg \in TgUsers :
          Finishes(tg) /\ last'[tg].repeat /\ WellFormed(thr[tg].words)
              => thr[tg].words # csv]_vars

\* C22 witness: both sessions have been served a round with the same row of the
\* bulk file, which held only well-formed rows and is now empty
C22_Witness ==
    /\ csv = <<Header>>
    /\ \A tg \in TgUsers : step[tg] = "Playing" /\ outcome[tg] = "selected"
    /\ \E tg \in TgUsers : last[tg].repeat
    /\ \E row \in bulkSeen : \A tg \in TgUsers :
          row[1] \in {round[tg].word} \cup { d.k : d \in round[tg].distractors }

\* the users row(s) of Telegram user tg in the table us
UserRows(us, tg) == { us[i] : i \in { j \in DOMAIN us : us[j].telegram_user_id = tg } }

\* the users_word rows of Telegram user tg in the tables us, uw
ExposureOf(us, uw, tg) ==
    { r \in uw : r.user_id \in { j \in DOMAIN us : us[j].telegram_user_id = tg } }

\* the step is a check_answer of chat a: the handler of the step Playing, the
\* only one that counts a presentation (shown' = Presented(a, ...))
Answered(a) ==
    /\ step[a] = "Playing"
    /\ shown' = Presented(a, round[a].id_word)

\* C23: a check_answer of user a, with its update_points, update_times_shown
\* and the start of the next round, leaves the users row (the points) and the
\* users_word rows of every other user b as they are, whatever handlers of the
\* two chats ran before.
C23_AnswerLeavesOthers ==
    [][\A a \in TgUsers :
          Answered(a) =>
              \A b \in TgUsers \ {a} :
                  /\ UserRows(users', b) = UserRows(users, b)
                  /\ ExposureOf(users', users_word', b) = ExposureOf(users, users_word, b)]_vars

\* C23 witness: user a has answered rounds and has points from them, while
\* another user b has points and users_word rows of their own
C23_Witness ==
    \E a \in TgUsers : \E b \in TgUsers \ {a} :
        /\ \E key \in DOMAIN shown : key[1] = a
        /\ \E u \in UserRows(users, a) : u.points # 0
        /\ \E u \in UserRows(users, b) : u.points # 0
        /\ ExposureOf(users, users_word, b) # {}
        /\ ExposureOf(users, users_word, a) # {}

\* the round a start_game for chat tg can send: some value of random.randint
\* and some state of the file lets word_generator return
CanStartRound(tg) ==
    \E flag \in 0..2, io \in BOOLEAN :
        \E o \in word_generator(Store, tg, flag, io) : o.how # "raised"

\* _save_new_word on message leaves the tables as they are and answers with
\* the wrong-format message
RefusedAsMalformed(message, tg) ==
    LET r == save_new_word(Store, message, tg)
    IN  /\ r.reply = "bad_format"
        /\ r.st.word = word /\ r.st.nextWordId = nextWordId
        /\ r.st.users = users
        /\ r.st.users_word = users_word

\* C24 (as stated): an add-word reply that has not exactly two comma-separated
\* parts and is not the back label is answered with the wrong-format message
\* and creates no word row, changes no points and no users_word row.
C24_MalformedNotBackLabel ==
    \A tg \in TgUsers : \A message \in AddTexts :
        /\ Len(message) # 2
        /\ ~(Len(message) = 1 /\ Strip(Lower(message[1])) = Lower(BTN_Back))
        => RefusedAsMalformed(message, tg)

\* C24 (as amended): an add-word reply that has not exactly two comma-separated
\* parts and whose first part is not the back label is answered with the
\* wrong-format message and creates no word row, changes no points and no
\* users_word row; after the answer no next step is registered and the user is
\* still registered, so that the next get_user_name calls start_game on the
\* store as it was before the reply.
C24_MalformedAddRefused ==
    \A tg \in TgUsers :
        /\ \A message \in AddTexts :
              Len(message) # 2 /\ Strip(Lower(message[1])) # Lower(BTN_Back)
                  => RefusedAsMalformed(message, tg)
        /\ last[tg].reply = "bad_format" =>
              /\ step[tg] = "Start"
              /\ Registered(Store, tg)

\* C24 witness: _save_new_word has answered a user who has points and
\* users_word rows with the wrong-format message, and a start_game for the
\* chat can send a round
C24_Witness ==
    \E tg \in TgUsers :
        /\ last[tg].reply = "bad_format"
        /\ CanStartRound(tg)
        /\ \E u \in UserRows(users, tg) : u.points # 0
        /\ ExposureOf(users, users_word, tg) # {}

\* the step is a handler of chat tg that took the reply for the back label
BackStep(tg) ==
    /\ step[tg] \in {"AwaitingNewWord", "AwaitingWordToDelete"}
    /\ last'[tg].reply = "back"

\* both handlers take the texts that are the back label (for _save_new_word:
\* whose first part is) as back and change nothing before they call start_game
BackRecognised ==
    \A tg \in TgUsers :
        /\ \A message \in AddTexts :
              Strip(Lower(message[1])) = Lower(BTN_Back)
                  => save_new_word(Store, message, tg) = [st |-> Store, reply |-> "back"]
        /\ \A message \in DeleteTexts :
              Strip(Lower(message)) = Lower(BTN_Back)
                  => delete_user_word(Store, message, tg) = [st |-> Store, reply |-> "back"]

TallyPoints(tg) == PointsCorrect * tally[tg].correct - PointsWrong * tally[tg].wrong

\* C26: the points of every registered user are the number of correct
\* answers minus 3 times the number of wrong answers given in Playing; and a
\* check_answer that is answered to the rating, add-word or remove-word label
\* changes no row of users and no row of users_word.
C26_PointsFollowAnswers ==
    /\ [](\A tg \in TgUsers :
             \A u \in UserRows(users, tg) : u.points = TallyPoints(tg))
    /\ [][\A a \in TgUsers :
             Answered(a) /\ last'[a].reply \in {"rating", "ask_word", "ask_delete"}
                 => users' = users /\ users_word' = users_word]_vars

\* C26 witness: a user has given correct and wrong answers, stands below zero,
\* and has just asked for the rating
C26_Witness ==
    \E tg \in TgUsers :
        /\ tally[tg].correct >= 1 /\ tally[tg].wrong >= 1
        /\ \E u \in UserRows(users, tg) : u.points < 0
        /\ last[tg].reply = "rating"

\* C27: in every round sent to a user no distractor has the translation of the
\* prompt: the buttons show the correct translation once.
C27_OneCorrectChoice ==
    \A tg \in TgUsers :
        step[tg] = "Playing" =>
            \A d \in round[tg].distractors : d.tr # round[tg].translation

\* the entry e of a word_dict is a row of table word that is global or owned
\* by Telegram user tg; an entry of the built-in list, which has no id, is the
\* term of a global row
OwnOrGlobal(st, e, tg) ==
    \E r \in st.word :
        /\ r.russian_words = e.k
        /\ IF e.id = NULL THEN r.user_id = NULL
           ELSE r.id = e.id /\ r.translation = e.tr /\ r.user_id \in {NULL, tg}

\* C28: the prompt and every distractor of a round a user is playing is a
\* global word or a word owned by that user; _delete_user_word of a user
\* deletes no row of table word that the user does not own.
C28_OwnWordsStayPrivate ==
    \A tg \in TgUsers :
        /\ step[tg] = "Playing" =>
              /\ OwnOrGlobal(Store, [k |-> round[tg].word, tr |-> round[tg].translation,
                                      id |-> round[tg].id_word], tg)
              /\ \A d \in round[tg].distractors : OwnOrGlobal(Store, d, tg)
        /\ \A message \in DeleteTexts :
              { r \in word : r.user_id # tg } \subseteq delete_user_word(Store, message, tg).st.word

\* C28 witness: a user is playing a round with distractors, selected from the
\* store, while the other user owns a word that user has not mastered
C28_Witness ==
    \E a \in TgUsers : \E b \in TgUsers \ {a} :
        /\ step[b] = "Playing" /\ outcome[b] = "selected"
        /\ round[b].distractors # {}
        /\ EligibleRows(Store, a, TRUE) # {}

====
